---- MODULE Spec2Model ----
(***************************************************************************)
(* Model of the GtaVRadio scheduler (src/js/constants.js): the seeded      *)
(* number source, the anti-repetition draw pools, the three station        *)
(* schedulers, and the metadata / station-index loaders.                   *)
(***************************************************************************)
EXTENDS Integers, Sequences, FiniteSets, TLC

(***************************************************************************)
(* SeededPRNG.  JavaScript numbers are doubles and the bitwise operators   *)
(* work on 32-bit patterns, so a 32-bit value is kept as a sequence of 32  *)
(* bits, least significant first; the two multiplications are the exact    *)
(* product rounded to a double (53 significant bits, ties to even).        *)
(***************************************************************************)
Word == 32
Mantissa == 53
ProdWidth == 60
HashMul == 73244475     \* 0x45d9f3b

RECURSIVE ToBits(_, _)
\* the w low bits of the non-negative integer n, least significant first
ToBits(n, w) == IF w = 0 THEN << >> ELSE <<n % 2>> \o ToBits(n \div 2, w - 1)

RECURSIVE FromBits(_)
\* the integer a short bit sequence stands for
FromBits(b) == IF Len(b) = 0 THEN 0 ELSE b[1] + 2 * FromBits(Tail(b))

\* a ^ b on 32-bit patterns
BitXor(a, b) == [i \in 1..Word |-> (a[i] + b[i]) % 2]

\* a >>> k on a 32-bit pattern
ShiftRightU(a, k) == [i \in 1..Word |-> IF i + k <= Word THEN a[i + k] ELSE 0]

\* b + 1 modulo 2^Len(b): a bit flips when every lower bit is 1
BitInc(b) == [i \in 1..Len(b) |-> IF \A j \in 1..(i - 1) : b[j] = 1 THEN 1 - b[i] ELSE b[i]]

\* two's complement negation of a 32-bit pattern
BitNeg(a) == BitInc([i \in 1..Word |-> 1 - a[i]])

HashMulBits == ToBits(HashMul, 27)

RECURSIVE MulColumns(_, _, _)
\* the exact product mag * HashMul, column by column with the running carry
MulColumns(mag, k, carry) ==
    IF k > ProdWidth THEN << >>
    ELSE LET col == carry + Cardinality({j \in 1..27 :
                        /\ HashMulBits[j] = 1
                        /\ k - j + 1 \in 1..Word
                        /\ mag[k - j + 1] = 1})
         IN  <<col % 2>> \o MulColumns(mag, k + 1, col \div 2)

\* index of the highest set bit of p (0 when p is zero)
TopBit(p) == IF \E i \in 1..Len(p) : p[i] = 1
             THEN CHOOSE i \in 1..Len(p) : p[i] = 1 /\ \A j \in (i + 1)..Len(p) : p[j] = 0
             ELSE 0

\* how many low bits a value with highest set bit `top` loses in a double
Excess(top) == IF top > Mantissa THEN top - Mantissa ELSE 0

\* p with its d low bits rounded away (to nearest, ties to even), low 32 bits
RoundAt(p, d) ==
    LET rest == FromBits(SubSeq(p, 1, d))
        half == IF d = 0 THEN 1 ELSE 2 ^ (d - 1)
        q    == SubSeq(p, d + 1, ProdWidth)
        up   == d > 0 /\ (rest > half \/ (rest = half /\ q[1] = 1))
        r    == IF up THEN BitInc(q) ELSE q
    IN  [i \in 1..Word |-> IF i <= d THEN 0 ELSE r[i - d]]

\* the low 32 bits of the double nearest to the non-negative integer p
RoundToDouble(p) == RoundAt(p, Excess(TopBit(p)))

\* a, negated when neg
WithSign(neg, a) == IF neg THEN BitNeg(a) ELSE a

\* (int32 a) * 0x45d9f3b as a double, then its 32-bit pattern: the product of
\* the magnitude, rounded, with the sign of a
MulHash(a) ==
    WithSign(a[Word] = 1, RoundToDouble(MulColumns(WithSign(a[Word] = 1, a), 1, 0)))

\* an unsigned 32-bit result, as two 16-bit halves
U32(b) == [hi |-> FromBits(SubSeq(b, 17, 32)), lo |-> FromBits(SubSeq(b, 1, 16))]

\* value ^ (value >>> k)
XorShift(value, k) == BitXor(value, ShiftRightU(value, k))

\* SeededPRNG.generate: the hash of (seed, index)
generate(seed, index) ==
    U32(XorShift(MulHash(XorShift(MulHash(XorShift(
            BitXor(ToBits(seed, Word), ToBits(index, Word)), 21)), 15)), 13))

\* raw % m for an unsigned 32-bit raw and a small positive m
U32Mod(raw, m) == (((raw.hi % m) * (65536 % m)) + (raw.lo % m)) % m

\* SeededPRNG.toFloat(raw) * 100 < 50: the quotient raw / 0xFFFFFFFF is below
\* one half exactly when raw < 2^31, that is when the top bit is clear
toFloatBelowHalf(raw) == raw.hi < 32768

(***************************************************************************)
(* Bounds of the model.  Times are in milliseconds as in the source; the   *)
(* month is shortened so that a replay from the epoch stays small.         *)
(***************************************************************************)
MonthLen == 3000        \* length of a (shortened) UTC month, ms
TickMs == 500           \* granularity of the clock
MaxNow == 4000          \* the clock stops here
MaxNextCalls == 5       \* nextSegment() calls made from outside, over a run
MaxSyncCalls == 3       \* getSyncedSegment() calls, over a run
MaxPairNextCalls == 2   \* the same two caps for a run with two station objects
MaxPairSyncCalls == 2
MaxCallers == 3         \* callers of loadMeta() / createStation()
MaxSource == 4          \* largest source array of a stand-alone draw pool
MaxRandom == 4          \* random integers 0..MaxRandom for a stand-alone pool
TableIndex == 24        \* indices of the number source that are tabulated

SecMs == 1000
DefaultDontRepeatFor == 8

localDataPath == "data/"
remoteDataPath == "https://remote/"

\* a wrong Math.min: the first argument, whatever the second
MinFirst(a, b) == a

\* Math.min
Min(a, b) == IF a < b THEN a ELSE b

\* the seeds a station constructor can set: the epochs up to MaxNow
EpochSet == {t \in 0..MaxNow : t % MonthLen = 0}

\* generate() tabulated over the epochs and the first indices
PRNGTable == [s \in EpochSet |-> [i \in 0..TableIndex |-> generate(s, i)]]

\* SeededPRNG.generate on a number source p = [seed, index]
PRNGgenerate(p) ==
    IF p.seed \in EpochSet /\ p.index \in 0..TableIndex
    THEN PRNGTable[p.seed][p.index]
    ELSE generate(p.seed, p.index)

\* SeededPRNG.next: the value, and the source with its index advanced
PRNGnext(p) == [value |-> PRNGgenerate(p), prng |-> [p EXCEPT !.index = @ + 1]]

(***************************************************************************)
(* IndexDrawPool and IndexDrawPoolManager.  An absent value (null,         *)
(* undefined, a missing map entry) is the empty sequence, a present one a  *)
(* one-element sequence.                                                   *)
(***************************************************************************)
PoolIds == {"track", "id", "mono_solo"}

\* new IndexDrawPool(sourceSize, dontRepeatFor)
IndexDrawPool(sourceSize, dontRepeatFor) ==
    [draw |-> [i \in 1..sourceSize |-> i - 1],
     discard |-> << >>,
     dontRepeatFor |-> dontRepeatFor]

\* a wrong splice: nothing is removed
RemoveAtKeep(seq, i) == seq

\* draw.splice(i, 1), for the 1-based position i
RemoveAt(seq, i) == SubSeq(seq, 1, i - 1) \o SubSeq(seq, i + 1, Len(seq))

\* a wrong IndexDrawPool.next: the full queue gives back its newest entry
PoolNextNewest(pool, randomInteger) ==
    IF Len(pool.draw) = 0 THEN [pool |-> pool, selected |-> << >>]
    ELSE LET randomIndex == U32Mod(randomInteger, Len(pool.draw))
             selected    == pool.draw[randomIndex + 1]
             draw1       == RemoveAt(pool.draw, randomIndex + 1)
             discard1    == Append(pool.discard, selected)
         IN  IF Len(discard1) > pool.dontRepeatFor
             THEN [pool |-> [pool EXCEPT !.draw = Append(draw1, discard1[Len(discard1)]),
                                         !.discard = SubSeq(discard1, 1, Len(discard1) - 1)],
                   selected |-> <<selected>>]
             ELSE [pool |-> [pool EXCEPT !.draw = draw1, !.discard = discard1],
                   selected |-> <<selected>>]

\* IndexDrawPool.next(randomInteger): the pool afterwards and the index drawn
PoolNext(pool, randomInteger) ==
    IF Len(pool.draw) = 0 THEN [pool |-> pool, selected |-> << >>]
    ELSE LET randomIndex == U32Mod(randomInteger, Len(pool.draw))
             selected    == pool.draw[randomIndex + 1]
             draw1       == RemoveAt(pool.draw, randomIndex + 1)
             discard1    == Append(pool.discard, selected)
         IN  IF Len(discard1) > pool.dontRepeatFor
             THEN [pool |-> [pool EXCEPT !.draw = Append(draw1, Head(discard1)),
                                         !.discard = Tail(discard1)],
                   selected |-> <<selected>>]
             ELSE [pool |-> [pool EXCEPT !.draw = draw1, !.discard = discard1],
                   selected |-> <<selected>>]

\* new IndexDrawPoolManager(): no pool under any id
EmptyPools == [id \in PoolIds |-> << >>]

\* IndexDrawPoolManager.nextUniqueIndex(id, sourceSize, randomInteger, dontRepeatFor)
nextUniqueIndex(map, id, sourceSize, randomInteger, dontRepeatFor) ==
    LET indexQueue == IF map[id] = << >>
                      THEN IndexDrawPool(sourceSize, Min(dontRepeatFor, sourceSize - 1))
                      ELSE map[id][1]
        drawn      == PoolNext(indexQueue, randomInteger)
    IN  [map |-> [map EXCEPT ![id] = <<drawn.pool>>], selected |-> drawn.selected]

(***************************************************************************)
(* State.                                                                  *)
(***************************************************************************)
VARIABLES
    now,            \* the wall clock, Date.now(), in ms
    PRNG,           \* the module-wide number source: [seed, index]
    lastUsedPath,   \* the active data root read by getDataPath()
    meta,           \* the parsed station.json the stations are created from
    station,        \* per slot: << >> before construction, else <<the station object>>
    running,        \* << >>, or <<[who, start]>> while getSyncedSegment() loops
    emitted,        \* per slot, the last two segments nextSegment() produced
    steps,          \* per slot, nextSegment() calls since construction or reset
    calls,          \* how many outside calls of nextSegment / getSyncedSegment are left
    lastSync,       \* what getSyncedSegment() returned, if it was the last thing to happen
    syncedTwice,    \* the results of two getSyncedSegment() calls in immediate succession
    lastThrow,      \* the call that ended with a thrown error, if it was the last thing to happen
    lastStep,       \* what the last nextSegment() step read and produced, if it just ran
    own,            \* per slot, from its getSyncedSegment() on: the number source as the
                    \* station's own calls alone would have left it
    poolCfg,        \* a stand-alone pool's [sourceSize, dontRepeatFor]
    poolMap,        \* the stand-alone pool's manager
    poolDrawn,      \* the indices the stand-alone pool returned, newest last
    radioMeta,      \* loadRadioMeta(): its position and its outcome
    stationMeta,    \* one StationMeta: meta, _metaPromise, and the fetch
    callers         \* the callers of loadMeta() / createStation()

schedVars == <<now, PRNG, meta, station, running, emitted, steps, calls, lastSync, syncedTwice,
               lastThrow, lastStep, own>>
poolVars  == <<poolCfg, poolMap, poolDrawn>>
loadVars  == <<radioMeta, stationMeta, callers>>
vars == <<schedVars, lastUsedPath, poolVars, loadVars>>

Slots == {1, 2}       \* the station objects of a run: one, or the pair
StationTypes == {"static", "talkshow", "dynamic"}

(***************************************************************************)
(* Station metadata (station.json).  A missing audibleDuration is 0, a     *)
(* missing voiceovers list or voiceOver is the empty sequence.             *)
(***************************************************************************)
Info(path, duration, audibleDuration, voiceovers) ==
    [path |-> path, duration |-> duration, audibleDuration |-> audibleDuration,
     voiceovers |-> voiceovers, voiceOver |-> << >>]

Voice(path) == [path |-> path, duration |-> 1]

FileGroupChoices ==
    { [track     |-> << Info("t0", 2, 0, << >>),
                        Info("t1", 1, 0, << Voice("v0"), Voice("v1") >>),
                        Info("t2", 2, 1, << >>) >>,
       id        |-> << Info("i0", 1, 0, << >>), Info("i1", 1, 0, << >>) >>,
       mono_solo |-> << Info("m0", 1, 0, << >>) >>],
      [track     |-> << Info("t0", 1, 0, << >>), Info("t1", 1, 0, << >>) >>,
       id        |-> << Info("i0", 2, 1, << >>) >>,
       mono_solo |-> << Info("m0", 1, 0, << >>), Info("m1", 1, 0, << >>),
                        Info("m2", 1, 0, << >>) >>] }

\* a station.json whose primary track list is empty
EmptyTrackGroups ==
    { [track     |-> << >>,
       id        |-> << Info("i0", 1, 0, << >>) >>,
       mono_solo |-> << Info("m0", 1, 0, << >>) >>] }

(***************************************************************************)
(* StationMeta / RadioStation helpers.                                     *)
(***************************************************************************)
\* getDataPath()
getDataPath == lastUsedPath

\* StationMeta.getAbsolutePath(relativePath)
getAbsolutePath(st, relativePath) == getDataPath \o st.path \o "/" \o relativePath

\* StationMeta.resolveObjectPath(object): a copy with the path made absolute
resolveObjectPath(st, object) == [object EXCEPT !.path = getAbsolutePath(st, object.path)]

\* RadioStation.startTimestamp: the first instant of the month the clock is in
\* (the getter reads the clock on every access)
startTimestamp == now - (now % MonthLen)

\* RadioStation.newSyncedSegment(segmentInfo, accumulatedTime)
newSyncedSegment(st, segmentInfo, accumulatedTime) ==
    [startTimestamp |-> startTimestamp + (accumulatedTime * SecMs)]
        @@ resolveObjectPath(st, segmentInfo)

\* segment.audibleDuration || segment.duration
PlayedDuration(segment) ==
    IF segment.audibleDuration # 0 THEN segment.audibleDuration ELSE segment.duration

\* the state a constructor leaves: RadioStation, then the subclass fields
\* (a field the subclass does not have keeps its initial value throughout)
NewStation(type, path) ==
    [type |-> type, path |-> path, accumulatedTime |-> 0, segmentIndex |-> 0,
     prevSegment |-> << >>, indexDrawPools |-> EmptyPools]

(***************************************************************************)
(* nextSegment() of the three stations.  Each takes the station object,    *)
(* the number source and the metadata, and gives them back with the        *)
(* segment: [st, prng, meta, seg, thrown].                                 *)
(***************************************************************************)
\* a wrong end of a step that read undefined: no error, no segment
ThrownUnnoticed(st, p, m) == [st |-> st, prng |-> p, meta |-> m, seg |-> << >>, thrown |-> FALSE]

\* a step that ends with a TypeError.  An empty array read at [x % 0] or at
\* [null] gives undefined; resolveObjectPath then reads `.path` of undefined
\* (line 101) and getRandomTrack reads `.voiceovers` of undefined (line 280).
\* What the step wrote before the throw stays written.
Thrown(st, p, m) == [st |-> st, prng |-> p, meta |-> m, seg |-> << >>, thrown |-> TRUE]

\* a wrong StaticStation.nextSegment: the cursor is read one ahead
StaticNextSegmentAhead(st, p, m) ==
    LET segmentList == m.fileGroups.track
        segment == newSyncedSegment(st, segmentList[((st.segmentIndex + 1) % Len(segmentList)) + 1],
                                    st.accumulatedTime)
    IN  [st   |-> [st EXCEPT !.segmentIndex = @ + 1,
                             !.accumulatedTime = @ + PlayedDuration(segment)],
         prng |-> p, meta |-> m, seg |-> segment, thrown |-> FALSE]

\* StaticStation.nextSegment
StaticNextSegment(st, p, m) ==
    LET segmentList == m.fileGroups.track
        segment == newSyncedSegment(st, segmentList[(st.segmentIndex % Len(segmentList)) + 1],
                                    st.accumulatedTime)
    IN  IF Len(segmentList) = 0
        THEN Thrown(st, p, m)
        ELSE [st   |-> [st EXCEPT !.segmentIndex = @ + 1,
                                  !.accumulatedTime = @ + PlayedDuration(segment)],
              prng |-> p, meta |-> m, seg |-> segment, thrown |-> FALSE]

\* TalkshowStation.getTrack
TalkshowGetTrack(st, m) ==
    LET segmentList == m.fileGroups.track
    IN  segmentList[(st.segmentIndex % Len(segmentList)) + 1]

\* TalkshowStation.getRandomTransition: [info, pools, prng]
TalkshowGetRandomTransition(st, p, m) ==
    LET transitions == m.fileGroups.id
        picked(drawn, prng) ==
            [info |-> transitions[drawn.selected[1] + 1], pools |-> drawn.map, prng |-> prng]
        withRandom(rnd) ==
            picked(nextUniqueIndex(st.indexDrawPools, "id", Len(transitions), rnd.value,
                                   DefaultDontRepeatFor),
                   rnd.prng)
    IN  withRandom(PRNGnext(p))

\* a wrong choice for the talk show: a track only when nothing came before
TalkshowTrackOnlyFirst(st) == st.prevSegment = << >>

\* TalkshowStation.nextSegment, the choice: a track first and after a transition
TalkshowIsTrack(st) == st.prevSegment = << >> \/ ~st.prevSegment[1].isTrack

\* TalkshowStation.nextSegment
TalkshowNextSegment(st, p, m) ==
    LET isTrack == TalkshowIsTrack(st)
        emit(pick, segment) ==
            [st   |-> [st EXCEPT !.segmentIndex = IF isTrack THEN @ + 1 ELSE @,
                                 !.indexDrawPools = pick.pools,
                                 !.prevSegment = <<segment>>,
                                 !.accumulatedTime = @ + PlayedDuration(segment)],
             prng |-> pick.prng, meta |-> m, seg |-> segment, thrown |-> FALSE]
        withPick(pick) ==
            emit(pick, [isTrack |-> isTrack]
                           @@ newSyncedSegment(st, pick.info, st.accumulatedTime))
    IN  IF isTrack /\ Len(m.fileGroups.track) = 0
        THEN Thrown(st, p, m)
        ELSE withPick(IF isTrack
                      THEN [info |-> TalkshowGetTrack(st, m), pools |-> st.indexDrawPools,
                            prng |-> p]
                      ELSE TalkshowGetRandomTransition(st, p, m))

\* a wrong DynamicStation.getRandomTrack: the voice-over is chosen with randNum,
\* no second number is drawn
DynamicGetRandomTrackOneDraw(st, p, m, randNum) ==
    LET tracks == m.fileGroups.track
        voiced(drawn, at, rnd) ==
            LET selectedTrack == tracks[at]
                voiceovers == selectedTrack.voiceovers
                voice == resolveObjectPath(st, voiceovers[U32Mod(rnd.value, Len(voiceovers)) + 1])
                withVoice == [selectedTrack EXCEPT !.voiceOver = <<voice>>]
            IN  [info |-> withVoice, pools |-> drawn.map, prng |-> rnd.prng,
                 meta |-> [m EXCEPT !.fileGroups.track[at] = withVoice], thrown |-> FALSE]
        selected(drawn, at) ==
            IF tracks[at].voiceovers # << >>
            THEN voiced(drawn, at, [value |-> randNum, prng |-> p])
            ELSE [info |-> tracks[at], pools |-> drawn.map, prng |-> p, meta |-> m,
                  thrown |-> FALSE]
        withDrawn(drawn) ==
            IF drawn.selected = << >>
            THEN [info |-> << >>, pools |-> drawn.map, prng |-> p, meta |-> m, thrown |-> TRUE]
            ELSE selected(drawn, drawn.selected[1] + 1)
    IN  withDrawn(nextUniqueIndex(st.indexDrawPools, "track", Len(tracks), randNum,
                                  DefaultDontRepeatFor))

\* DynamicStation.getRandomTrack(randNum): [info, pools, prng, meta, thrown]; a track
\* that declares voiceovers gets its voiceOver set in the metadata itself
DynamicGetRandomTrack(st, p, m, randNum) ==
    LET tracks == m.fileGroups.track
        voiced(drawn, at, rnd) ==
            LET selectedTrack == tracks[at]
                voiceovers == selectedTrack.voiceovers
                voice == resolveObjectPath(st, voiceovers[U32Mod(rnd.value, Len(voiceovers)) + 1])
                withVoice == [selectedTrack EXCEPT !.voiceOver = <<voice>>]
            IN  [info |-> withVoice, pools |-> drawn.map, prng |-> rnd.prng,
                 meta |-> [m EXCEPT !.fileGroups.track[at] = withVoice], thrown |-> FALSE]
        selected(drawn, at) ==
            IF tracks[at].voiceovers # << >>
            THEN voiced(drawn, at, PRNGnext(p))
            ELSE [info |-> tracks[at], pools |-> drawn.map, prng |-> p, meta |-> m,
                  thrown |-> FALSE]
        withDrawn(drawn) ==
            IF drawn.selected = << >>
            THEN [info |-> << >>, pools |-> drawn.map, prng |-> p, meta |-> m, thrown |-> TRUE]
            ELSE selected(drawn, drawn.selected[1] + 1)
    IN  withDrawn(nextUniqueIndex(st.indexDrawPools, "track", Len(tracks), randNum,
                                  DefaultDontRepeatFor))

\* DynamicStation.getRandomTransition(randNum): [info, pools, prng, meta, thrown]
DynamicGetRandomTransition(st, p, m, randNum) ==
    LET select == U32Mod(randNum, 2)
        transitionType == IF select = 0 THEN "id" ELSE "mono_solo"
        transitions == m.fileGroups[transitionType]
        picked(drawn) ==
            [info |-> transitions[drawn.selected[1] + 1], pools |-> drawn.map, prng |-> p,
             meta |-> m, thrown |-> FALSE]
    IN  picked(nextUniqueIndex(st.indexDrawPools, transitionType, Len(transitions), randNum,
                               DefaultDontRepeatFor))

\* a wrong choice for the dynamic station: the forced track after a transition is lost
DynamicIsTrackUnforced(st, randNum) == st.prevSegment = << >> \/ toFloatBelowHalf(randNum)

\* a wrong choice for the dynamic station: after a track, a track when
\* randPercent >= 50
DynamicIsTrackInverted(st, randNum) ==
    st.prevSegment = << >> \/ ~st.prevSegment[1].isTrack \/ ~toFloatBelowHalf(randNum)

\* DynamicStation.nextSegment, the choice: a track first, after a transition,
\* and otherwise when randPercent < 50
DynamicIsTrack(st, randNum) ==
    st.prevSegment = << >> \/ ~st.prevSegment[1].isTrack \/ toFloatBelowHalf(randNum)

\* DynamicStation.nextSegment
DynamicNextSegment(st, p, m) ==
    LET emit(pick, segment) ==
            [st   |-> [st EXCEPT !.indexDrawPools = pick.pools,
                                 !.prevSegment = <<segment>>,
                                 !.accumulatedTime = @ + PlayedDuration(segment)],
             prng |-> pick.prng, meta |-> pick.meta, seg |-> segment, thrown |-> FALSE]
        withPick(isTrack, pick) ==
            IF pick.thrown
            THEN Thrown([st EXCEPT !.indexDrawPools = pick.pools], pick.prng, pick.meta)
            ELSE emit(pick, [isTrack |-> isTrack]
                                @@ newSyncedSegment(st, pick.info, st.accumulatedTime))
        withChoice(randNum, prng, isTrack) ==
            withPick(isTrack, IF isTrack THEN DynamicGetRandomTrack(st, prng, m, randNum)
                                         ELSE DynamicGetRandomTransition(st, prng, m, randNum))
        withRandom(rnd) == withChoice(rnd.value, rnd.prng, DynamicIsTrack(st, rnd.value))
    IN  withRandom(PRNGnext(p))

\* nextSegment() of whichever station st is
nextSegment(st, p, m) ==
    CASE st.type = "static"   -> StaticNextSegment(st, p, m)
      [] st.type = "talkshow" -> TalkshowNextSegment(st, p, m)
      [] OTHER                -> DynamicNextSegment(st, p, m)

\* the resets at the head of getSyncedSegment(): the station and the number source
SyncReset(st) ==
    CASE st.type = "static"   -> [st EXCEPT !.segmentIndex = 0, !.accumulatedTime = 0]
      [] st.type = "talkshow" -> [st EXCEPT !.segmentIndex = 0, !.accumulatedTime = 0,
                                            !.prevSegment = << >>]
      [] OTHER                -> [st EXCEPT !.accumulatedTime = 0, !.prevSegment = << >>]

SyncResetPRNG(st, p) == IF st.type = "static" THEN p ELSE [p EXCEPT !.index = 0]

(***************************************************************************)
(* The scheduler: construction, nextSegment(), getSyncedSegment() and the  *)
(* clock.  JavaScript runs one call at a time, so calls do not interleave; *)
(* the clock is the only thing that moves while getSyncedSegment() loops,  *)
(* so its loop is one action per iteration.                                *)
(***************************************************************************)
StationPath == "radio"

\* what no scheduler action touches
SchedFrame == UNCHANGED <<lastUsedPath, poolVars, loadVars>>
\* what no stand-alone pool action touches
PoolFrame == UNCHANGED <<lastUsedPath, schedVars, loadVars>>

LastTwo(seq) == IF Len(seq) > 2 THEN SubSeq(seq, Len(seq) - 1, Len(seq)) ELSE seq

InitSched(slots, nextCalls, syncCalls, fileGroups) ==
    /\ now = 0
    /\ PRNG = [seed |-> 1, index |-> 0]
    /\ meta \in [type : StationTypes, fileGroups : fileGroups]
    /\ lastThrow = << >>
    /\ lastStep = << >>
    /\ own = [s \in slots |-> << >>]
    /\ station = [s \in slots |-> << >>]
    /\ running = << >>
    /\ emitted = [s \in slots |-> << >>]
    /\ steps = [s \in slots |-> 0]
    /\ calls = [next |-> nextCalls, sync |-> syncCalls]
    /\ lastSync = << >>
    /\ syncedTwice = << >>

\* the step the station in slot s would make had no other station object
\* touched the number source since s began its getSyncedSegment()
Alone(s) == IF own[s] = << >> THEN << >> ELSE <<nextSegment(station[s][1], own[s][1], meta)>>

\* what a step of the station in slot s read and produced
StepRecord(s, res, alone) ==
    [who |-> s, seed |-> PRNG.seed, epoch |-> startTimestamp,
     indexBefore |-> PRNG.index, indexAfter |-> res.prng.index,
     raw |-> PRNGgenerate(PRNG), prev |-> station[s][1].prevSegment,
     seg |-> res.seg,
     alone |-> IF alone = << >> THEN << >> ELSE <<alone[1].seg>>]

\* the clock advances
Tick ==
    /\ now + TickMs <= MaxNow
    /\ now' = now + TickMs
    /\ lastSync' = << >>
    /\ syncedTwice' = << >>
    /\ lastThrow' = << >>
    /\ lastStep' = << >>
    /\ UNCHANGED <<PRNG, meta, station, running, emitted, steps, calls, own>>
    /\ SchedFrame

\* createStation()'s switch: new Static/Talkshow/DynamicStation(path, meta);
\* the RadioStation constructor re-seeds the shared number source
Construct(s) ==
    /\ running = << >>
    /\ station[s] = << >>
    /\ PRNG' = [PRNG EXCEPT !.seed = startTimestamp]
    /\ station' = [station EXCEPT ![s] = <<NewStation(meta.type, StationPath)>>]
    /\ lastSync' = << >>
    /\ syncedTwice' = << >>
    /\ lastThrow' = << >>
    /\ lastStep' = << >>
    /\ UNCHANGED <<now, meta, running, emitted, steps, calls, own>>
    /\ SchedFrame

\* station.nextSegment() called from outside (pre-fetching the next segment)
NextSegment(s) ==
    /\ running = << >>
    /\ station[s] # << >>
    /\ calls.next > 0
    /\ \E res \in {nextSegment(station[s][1], PRNG, meta)}, alone \in {Alone(s)} :
           /\ station' = [station EXCEPT ![s] = <<res.st>>]
           /\ PRNG' = res.prng
           /\ meta' = res.meta
           /\ own' = [own EXCEPT ![s] = IF alone = << >> THEN << >> ELSE <<alone[1].prng>>]
           /\ IF res.thrown
              THEN /\ lastThrow' = <<[who |-> s, call |-> "nextSegment"]>>
                   /\ lastStep' = << >>
                   /\ UNCHANGED <<emitted, steps>>
              ELSE /\ lastThrow' = << >>
                   /\ lastStep' = <<StepRecord(s, res, alone)>>
                   /\ emitted' = [emitted EXCEPT ![s] = LastTwo(Append(@, res.seg))]
                   /\ steps' = [steps EXCEPT ![s] = @ + 1]
    /\ calls' = [calls EXCEPT !.next = @ - 1]
    /\ lastSync' = << >>
    /\ syncedTwice' = << >>
    /\ UNCHANGED <<now, running>>
    /\ SchedFrame

\* station.getSyncedSegment(), up to the loop: the resets and `start`
GetSyncedBegin(s) ==
    /\ running = << >>
    /\ station[s] # << >>
    /\ calls.sync > 0
    /\ station' = [station EXCEPT ![s] = <<SyncReset(station[s][1])>>]
    /\ PRNG' = SyncResetPRNG(station[s][1], PRNG)
    /\ own' = [own EXCEPT ![s] = <<SyncResetPRNG(station[s][1], PRNG)>>]
    /\ running' = <<[who |-> s, start |-> startTimestamp, began |-> now]>>
    /\ steps' = [steps EXCEPT ![s] = 0]
    /\ calls' = [calls EXCEPT !.sync = @ - 1]
    /\ syncedTwice' = << >>
    /\ lastThrow' = << >>
    /\ lastStep' = << >>
    /\ UNCHANGED <<now, meta, emitted, lastSync>>
    /\ SchedFrame

\* one iteration of the loop of getSyncedSegment(): nextSegment(), then the
\* test against Date.now(); the call returns when the test succeeds, and
\* ends at once when the step throws
GetSyncedStep ==
    /\ running # << >>
    /\ \E res \in {nextSegment(station[running[1].who][1], PRNG, meta)},
          alone \in {Alone(running[1].who)} :
       LET s    == running[1].who
           time == running[1].start + (res.st.accumulatedTime * SecMs)
           ret  == [who |-> s, seg |-> res.seg, began |-> running[1].began,
                    now |-> now, seed |-> res.prng.seed]
       IN  /\ station' = [station EXCEPT ![s] = <<res.st>>]
           /\ PRNG' = res.prng
           /\ meta' = res.meta
           /\ own' = [own EXCEPT ![s] = IF alone = << >> THEN << >> ELSE <<alone[1].prng>>]
           /\ IF res.thrown
              THEN /\ lastThrow' = <<[who |-> s, call |-> "getSyncedSegment"]>>
                   /\ lastStep' = << >>
                   /\ running' = << >>
                   /\ lastSync' = << >>
                   /\ syncedTwice' = << >>
                   /\ UNCHANGED <<emitted, steps>>
              ELSE /\ lastThrow' = << >>
                   /\ lastStep' = <<StepRecord(s, res, alone)>>
                   /\ emitted' = [emitted EXCEPT ![s] = LastTwo(Append(@, res.seg))]
                   /\ steps' = [steps EXCEPT ![s] = @ + 1]
                   /\ IF time > now
                      THEN /\ running' = << >>
                           /\ syncedTwice' = IF lastSync # << >>
                                             THEN <<[first |-> lastSync[1], second |-> ret]>>
                                             ELSE << >>
                           /\ lastSync' = <<ret>>
                      ELSE UNCHANGED <<running, syncedTwice, lastSync>>
    /\ UNCHANGED <<now, calls>>
    /\ SchedFrame

Next ==
    \/ Tick
    \/ \E s \in DOMAIN station : Construct(s)
    \/ \E s \in DOMAIN station : NextSegment(s)
    \/ \E s \in DOMAIN station : GetSyncedBegin(s)
    \/ GetSyncedStep

(***************************************************************************)
(* A stand-alone draw pool obtained through the manager, drawn from with   *)
(* arbitrary random integers.                                              *)
(***************************************************************************)
InitPool ==
    /\ poolCfg \in [sourceSize : 0..MaxSource,
                    dontRepeatFor : (0..MaxSource) \cup {DefaultDontRepeatFor}]
    /\ poolMap = EmptyPools
    /\ poolDrawn = << >>

\* manager.nextUniqueIndex("track", sourceSize, randomInteger, dontRepeatFor)
PoolDraw(r) ==
    LET res == nextUniqueIndex(poolMap, "track", poolCfg.sourceSize, [hi |-> 0, lo |-> r],
                               poolCfg.dontRepeatFor)
        all == Append(poolDrawn, res.selected)
    IN  /\ poolMap' = res.map
        /\ poolDrawn' = IF Len(all) > MaxSource + 1 THEN Tail(all) ELSE all
        /\ UNCHANGED poolCfg
        /\ PoolFrame

NextP == \E r \in 0..MaxRandom : PoolDraw(r)

(***************************************************************************)
(* The loaders.  loadRadioMeta() runs once, when the module is loaded; a   *)
(* StationMeta is asked for its metadata by several callers.  Every await  *)
(* is a point where the function is suspended until the network, or the    *)
(* promise awaited, has an outcome; the outcomes are the inputs.           *)
(***************************************************************************)
Callers == 1..MaxCallers

FetchOutcomes == {"ok", "notOk", "networkError"}
JsonOutcomes == {"parsed", "parseError"}

InitLoad ==
    /\ radioMeta = [pc |-> "localFetch", local |-> "none", remote |-> "none",
                    result |-> "pending"]
    /\ stationMeta = [loaded |-> FALSE, metaPromise |-> << >>, promises |-> << >>]
    /\ callers = [c \in Callers |-> [pc |-> "idle", waitsOn |-> 0, result |-> "none"]]

\* what no loader action touches
LoadFrame == UNCHANGED <<now, meta, running, emitted, steps, calls, lastSync, syncedTwice,
                         lastThrow, lastStep, own,
                         poolVars>>

\* loadRadioMeta, lines 8-9: the local fetch has its outcome
RadioLocalFetch(outcome) ==
    /\ radioMeta.pc = "localFetch"
    /\ radioMeta' = [radioMeta EXCEPT !.local = outcome,
                         !.pc = IF outcome = "ok" THEN "localJson" ELSE "remoteFetch"]
    /\ UNCHANGED <<lastUsedPath, stationMeta, callers, station, PRNG>>
    /\ LoadFrame

\* loadRadioMeta, line 11: the local body is parsed, or the catch is entered
RadioLocalJson(outcome) ==
    /\ radioMeta.pc = "localJson"
    /\ radioMeta' = IF outcome = "parsed"
                    THEN [radioMeta EXCEPT !.pc = "done", !.result = "resolvedLocal"]
                    ELSE [radioMeta EXCEPT !.pc = "remoteFetch", !.local = outcome]
    /\ UNCHANGED <<lastUsedPath, stationMeta, callers, station, PRNG>>
    /\ LoadFrame

\* loadRadioMeta, lines 16-23: the remote fetch has its outcome.  After an ok
\* response line 19 reads `dataURL`, a name no declaration of the source
\* binds: the read throws a ReferenceError before lastUsedPath is assigned,
\* the inner catch rethrows it, and line 20 is never reached.
RadioRemoteFetch(outcome) ==
    /\ radioMeta.pc = "remoteFetch"
    /\ radioMeta' = [radioMeta EXCEPT !.remote = outcome, !.pc = "done",
                         !.result = IF outcome = "ok" THEN "rejectedReferenceError"
                                                       ELSE "rejectedRemoteError"]
    /\ UNCHANGED <<lastUsedPath, stationMeta, callers, station, PRNG>>
    /\ LoadFrame

\* this.meta of the StationMeta
ThisMeta == IF stationMeta.loaded THEN <<meta>> ELSE << >>

\* a wrong loadMeta: every call fetches
AlwaysFetch(sm) == TRUE

\* StationMeta.loadMeta, line 78: `if (!this._metaPromise)`
MustFetch(sm) == sm.metaPromise = << >>

\* StationMeta.loadMeta(): the StationMeta afterwards; the promise returned
\* is the one its metaPromise names
loadMeta(sm) ==
    IF MustFetch(sm)
    THEN [sm EXCEPT !.promises = Append(@, [stage |-> "fetching", failed |-> FALSE,
                                            url |-> getAbsolutePath([path |-> StationPath],
                                                                    "station.json")]),
                    !.metaPromise = <<Len(sm.promises) + 1>>]
    ELSE sm

\* a caller calls loadMeta() and awaits what it returns
CallLoadMeta(c) ==
    /\ callers[c].pc = "idle"
    /\ stationMeta' = loadMeta(stationMeta)
    /\ callers' = [callers EXCEPT ![c] = [pc |-> "awaitLoad",
                                          waitsOn |-> stationMeta'.metaPromise[1],
                                          result |-> "none"]]
    /\ UNCHANGED <<lastUsedPath, radioMeta, station, PRNG>>
    /\ LoadFrame

\* a caller calls createStation(): with this.meta set it constructs the
\* station at once, otherwise it awaits loadMeta()
CallCreateStation(c) ==
    /\ callers[c].pc = "idle"
    /\ IF ThisMeta # << >>
       THEN /\ callers' = [callers EXCEPT ![c] = [pc |-> "done", waitsOn |-> 0,
                                                  result |-> "station"]]
            /\ station' = [station EXCEPT ![c] = <<NewStation(meta.type, StationPath)>>]
            /\ PRNG' = [PRNG EXCEPT !.seed = startTimestamp]
            /\ UNCHANGED stationMeta
       ELSE /\ stationMeta' = loadMeta(stationMeta)
            /\ callers' = [callers EXCEPT ![c] = [pc |-> "awaitCreate",
                                                  waitsOn |-> stationMeta'.metaPromise[1],
                                                  result |-> "none"]]
            /\ UNCHANGED <<station, PRNG>>
    /\ UNCHANGED <<lastUsedPath, radioMeta>>
    /\ LoadFrame

\* lines 79-84: the fetch of station.json has its outcome; a network error
\* goes to the catch, which logs it and returns nothing: the promise is
\* fulfilled with undefined.  (res.ok is not looked at.)
MetaFetch(i, outcome) ==
    /\ i \in 1..Len(stationMeta.promises)
    /\ stationMeta.promises[i].stage = "fetching"
    /\ stationMeta' = [stationMeta EXCEPT !.promises[i] =
                          IF outcome = "networkError"
                          THEN [@ EXCEPT !.stage = "settled", !.failed = TRUE]
                          ELSE [@ EXCEPT !.stage = "parsing"]]
    /\ UNCHANGED <<lastUsedPath, radioMeta, callers, station, PRNG>>
    /\ LoadFrame

\* lines 80-84: res.json() has its outcome; parsed, this.meta is set and the
\* promise is fulfilled with it; a parse error goes to the same catch
MetaJson(i, outcome) ==
    /\ i \in 1..Len(stationMeta.promises)
    /\ stationMeta.promises[i].stage = "parsing"
    /\ stationMeta' = IF outcome = "parsed"
                      THEN [stationMeta EXCEPT !.loaded = TRUE,
                                               !.promises[i].stage = "settled"]
                      ELSE [stationMeta EXCEPT !.promises[i].stage = "settled",
                                               !.promises[i].failed = TRUE]
    /\ UNCHANGED <<lastUsedPath, radioMeta, callers, station, PRNG>>
    /\ LoadFrame

\* the promise a caller awaits is settled and the caller goes on: loadMeta's
\* caller has the promise's value; createStation reads this.meta.type, which
\* throws a TypeError when this.meta is still null
Resume(c) ==
    /\ callers[c].pc \in {"awaitLoad", "awaitCreate"}
    /\ stationMeta.promises[callers[c].waitsOn].stage = "settled"
    /\ IF callers[c].pc = "awaitLoad"
       THEN /\ callers' = [callers EXCEPT ![c].pc = "done",
                               ![c].result = IF stationMeta.promises[callers[c].waitsOn].failed
                                             THEN "fulfilledUndefined" ELSE "fulfilledMeta"]
            /\ UNCHANGED <<station, PRNG>>
       ELSE IF ThisMeta = << >>
       THEN /\ callers' = [callers EXCEPT ![c].pc = "done", ![c].result = "rejectedTypeError"]
            /\ UNCHANGED <<station, PRNG>>
       ELSE /\ callers' = [callers EXCEPT ![c].pc = "done", ![c].result = "station"]
            /\ station' = [station EXCEPT ![c] = <<NewStation(meta.type, StationPath)>>]
            /\ PRNG' = [PRNG EXCEPT !.seed = startTimestamp]
    /\ UNCHANGED <<lastUsedPath, radioMeta, stationMeta>>
    /\ LoadFrame

NextLoad ==
    \/ \E o \in FetchOutcomes : RadioLocalFetch(o)
    \/ \E o \in JsonOutcomes : RadioLocalJson(o)
    \/ \E o \in FetchOutcomes : RadioRemoteFetch(o)
    \/ \E c \in Callers : CallLoadMeta(c)
    \/ \E c \in Callers : CallCreateStation(c)
    \/ \E i \in 1..MaxCallers : \E o \in {"response", "networkError"} : MetaFetch(i, o)
    \/ \E i \in 1..MaxCallers : \E o \in JsonOutcomes : MetaJson(i, o)
    \/ \E c \in Callers : Resume(c)

\* the loaders at rest, for the other specifications
IdleLoad ==
    /\ radioMeta = [pc |-> "done", local |-> "ok", remote |-> "none",
                    result |-> "resolvedLocal"]
    /\ stationMeta = [loaded |-> TRUE, metaPromise |-> << >>, promises |-> << >>]
    /\ callers = [c \in {} |-> 0]

IdleSched ==
    /\ now = 0 /\ PRNG = [seed |-> 1, index |-> 0]
    /\ meta = [type |-> "dynamic", fileGroups |-> CHOOSE g \in FileGroupChoices : TRUE]
    /\ station = [s \in {1} |-> << >>] /\ running = << >>
    /\ emitted = [s \in {1} |-> << >>] /\ steps = [s \in {1} |-> 0]
    /\ calls = [next |-> 0, sync |-> 0] /\ lastSync = << >> /\ syncedTwice = << >>
    /\ lastThrow = << >> /\ lastStep = << >> /\ own = [s \in {1} |-> << >>]

IdlePool ==
    /\ poolCfg = [sourceSize |-> 0, dontRepeatFor |-> 0]
    /\ poolMap = EmptyPools
    /\ poolDrawn = << >>

\* the scheduler, one station object
Init == InitSched({1}, MaxNextCalls, MaxSyncCalls, FileGroupChoices) /\ lastUsedPath = localDataPath /\ IdlePool /\ IdleLoad
Spec == Init /\ [][Next]_vars

\* the scheduler, one station object whose metadata has no tracks
InitEmpty == InitSched({1}, MaxNextCalls, MaxSyncCalls, EmptyTrackGroups)
             /\ lastUsedPath = localDataPath /\ IdlePool /\ IdleLoad
SpecEmpty == InitEmpty /\ [][Next]_vars

\* the scheduler, two station objects created from the same StationMeta
InitPair == InitSched(Slots, MaxPairNextCalls, MaxPairSyncCalls, FileGroupChoices)
            /\ lastUsedPath = localDataPath /\ IdlePool /\ IdleLoad
SpecPair == InitPair /\ [][Next]_vars

\* the loaders
InitL == InitLoad /\ lastUsedPath = localDataPath /\ InitSched(Callers, 0, 0, FileGroupChoices) /\ IdlePool
SpecLoad == InitL /\ [][NextLoad]_vars

\* the stand-alone draw pool
InitP == InitPool /\ lastUsedPath = localDataPath /\ IdleSched /\ IdleLoad
SpecPool == InitP /\ [][NextP]_vars

(***************************************************************************)
(* Properties.                                                             *)
(***************************************************************************)
SamePlace(a, b) == a.path = b.path /\ a.startTimestamp = b.startTimestamp

SameFlag(a, b) ==
    IF "isTrack" \in DOMAIN a /\ "isTrack" \in DOMAIN b
    THEN a.isTrack = b.isTrack
    ELSE ("isTrack" \in DOMAIN a) = ("isTrack" \in DOMAIN b)

\* C1: the segment getSyncedSegment() returns is the one playing at the clock
\* reading of its return: 0 <= now - startTimestamp < duration (in ms).
SeekOffsetInSegment ==
    lastSync # << >> =>
        LET offset == lastSync[1].now - lastSync[1].seg.startTimestamp
        IN  0 <= offset /\ offset < lastSync[1].seg.duration * SecMs

\* C2: two station objects of the same station (same path, metadata and
\* seed), each asked for getSyncedSegment() at the same clock millisecond,
\* return the same path and the same startTimestamp, whatever went before.
SyncStability ==
    (/\ syncedTwice # << >>
     /\ syncedTwice[1].first.who # syncedTwice[1].second.who
     /\ syncedTwice[1].first.began = syncedTwice[1].second.now
     /\ syncedTwice[1].first.seed = syncedTwice[1].second.seed)
    => SamePlace(syncedTwice[1].first.seg, syncedTwice[1].second.seg)

\* C3: getSyncedSegment() called twice in succession on one station object,
\* the clock unchanged between the calls, returns the same segment twice
\* (path, startTimestamp and isTrack).
SyncTwiceSame ==
    (/\ syncedTwice # << >>
     /\ syncedTwice[1].first.who = syncedTwice[1].second.who)
    => /\ SamePlace(syncedTwice[1].first.seg, syncedTwice[1].second.seg)
       /\ SameFlag(syncedTwice[1].first.seg, syncedTwice[1].second.seg)

\* C4: for a pool of size n >= 2 obtained through the manager, with window
\* w = min(dontRepeatFor, n - 1), no run of w consecutive draws holds an
\* index twice, whatever the random integers.
NoRepeatInWindow ==
    LET n == poolCfg.sourceSize
        w == Min(poolCfg.dontRepeatFor, n - 1)
    IN  n >= 2 =>
            \A i, j \in 1..Len(poolDrawn) :
                (i < j /\ j - i < w) => poolDrawn[i] # poolDrawn[j]

\* a pool of three with a window of two has drawn four times, and the index
\* drawn first has come back
NoRepeatWitness ==
    /\ poolCfg.sourceSize = 3
    /\ Min(poolCfg.dontRepeatFor, poolCfg.sourceSize - 1) = 2
    /\ Len(poolDrawn) >= 4
    /\ poolDrawn[Len(poolDrawn)] = poolDrawn[Len(poolDrawn) - 3]
    /\ poolDrawn[Len(poolDrawn)] # << >>

\* C5: the dynamic station never emits two transitions in a row, over all
\* nextSegment() steps, those inside getSyncedSegment() included.
NoTwoTransitions ==
    meta.type = "dynamic" =>
        \A s \in DOMAIN emitted :
            Len(emitted[s]) = 2 => (emitted[s][1].isTrack \/ emitted[s][2].isTrack)

\* a transition was followed by a track although the number drawn for that
\* step asked for a transition (randPercent >= 50)
ForcedTrackWitness ==
    /\ meta.type = "dynamic"
    /\ steps[1] >= 3
    /\ Len(emitted[1]) = 2
    /\ ~emitted[1][1].isTrack
    /\ emitted[1][2].isTrack
    /\ emitted[1][2].voiceovers = << >>
    /\ PRNG.index >= 1
    /\ ~toFloatBelowHalf(PRNGgenerate([PRNG EXCEPT !.index = @ - 1]))

\* C6: the talk show alternates: counting from construction or from the
\* reset of getSyncedSegment(), the first segment is a track and no two
\* consecutive segments have the same isTrack.
StrictAlternation ==
    meta.type = "talkshow" =>
        \A s \in DOMAIN emitted :
            /\ steps[s] = 1 => emitted[s][Len(emitted[s])].isTrack
            /\ steps[s] >= 2 => emitted[s][1].isTrack # emitted[s][2].isTrack

\* the talk show is at least four segments into a run and has just emitted
\* a transition after a track
AlternationWitness ==
    /\ meta.type = "talkshow"
    /\ steps[1] >= 4
    /\ emitted[1][1].isTrack
    /\ ~emitted[1][2].isTrack

\* C7: the static station's k-th nextSegment() since construction or reset
\* returns the track at index (k - 1) mod n.
FixedRotation ==
    meta.type = "static" =>
        \A s \in DOMAIN emitted :
            steps[s] >= 1 =>
                LET tracks == meta.fileGroups.track
                    k      == steps[s]
                IN  emitted[s][Len(emitted[s])].path =
                        getAbsolutePath(station[s][1], tracks[((k - 1) % Len(tracks)) + 1].path)

\* seven calls on the three-track station: the seventh is track 0 again,
\* after track 2
FixedRotationWitness ==
    /\ meta.type = "static"
    /\ Len(meta.fileGroups.track) = 3
    /\ steps[1] = 7
    /\ emitted[1][1].path = getAbsolutePath(station[1][1], meta.fileGroups.track[3].path)
    /\ emitted[1][2].path = getAbsolutePath(station[1][1], meta.fileGroups.track[1].path)

Pending == {i \in 1..Len(stationMeta.promises) : stationMeta.promises[i].stage # "settled"}
Waiting == {c \in DOMAIN callers : callers[c].pc \in {"awaitLoad", "awaitCreate"}}

\* C8: whatever the interleaving of loadMeta() and createStation() callers,
\* at most one fetch of the station metadata is in flight, and every caller
\* that is waiting waits on that one memoized promise.
SingleFetchInFlight ==
    /\ Cardinality(Pending) <= 1
    /\ \A c \in Waiting : stationMeta.metaPromise = <<callers[c].waitsOn>>
    /\ \A c \in Waiting : Pending # {} => callers[c].waitsOn \in Pending

\* a loadMeta() caller and a createStation() caller wait at the same time on
\* the one fetch that was issued, which has not settled yet
SingleFetchWitness ==
    /\ \E c, d \in Waiting : callers[c].pc = "awaitLoad" /\ callers[d].pc = "awaitCreate"
    /\ Cardinality(Waiting) = 3
    /\ Len(stationMeta.promises) = 1
    /\ Pending = {1}

\* C9: when the fetch of station.json or its parsing fails, every waiter
\* sees the failure: loadMeta()'s promise is rejected with the load error
\* and createStation() reports that load failure.
LoadFailureSurfaced ==
    \A c \in DOMAIN callers :
        (/\ callers[c].pc = "done"
         /\ callers[c].waitsOn # 0
         /\ stationMeta.promises[callers[c].waitsOn].failed)
        => callers[c].result = "rejectedLoadError"

\* C10: when the local fetch of the station index fails and the remote one
\* succeeds, loadRadioMeta() resolves with the remote index and getDataPath()
\* gives the remote root; it rejects only when both sources fail.
RemoteFallback ==
    radioMeta.pc = "done" =>
        /\ (radioMeta.local # "ok" /\ radioMeta.remote = "ok")
               => (radioMeta.result = "resolvedRemote" /\ getDataPath = remoteDataPath)
        /\ radioMeta.result \in {"rejectedRemoteError", "rejectedReferenceError"}
               => (radioMeta.local # "ok" /\ radioMeta.remote \in {"notOk", "networkError"})

\* C11: with an empty primary track list, whatever the variant, no replay
\* step ever completes and nothing is returned: a getSyncedSegment() in
\* progress ends at its first step with a thrown error.
EmptyTracksFail ==
    Len(meta.fileGroups.track) = 0 =>
        /\ \A s \in DOMAIN steps : steps[s] = 0
        /\ lastSync = << >>
        /\ running # << >> => nextSegment(station[running[1].who][1], PRNG, meta).thrown

\* getSyncedSegment() of a dynamic station without tracks has just ended by
\* throwing, after it drew a number and created the empty "track" pool
EmptyTracksWitness ==
    /\ Len(meta.fileGroups.track) = 0
    /\ meta.type = "dynamic"
    /\ lastThrow = <<[who |-> 1, call |-> "getSyncedSegment"]>>
    /\ running = << >>
    /\ station[1][1].indexDrawPools["track"] # << >>

\* C12: a draw through the manager returns null exactly when the source
\* size is 0: every draw of an empty source is null, and a pool of one or
\* more never has an empty drawable set between draws, whatever the random
\* integers and the requested dontRepeatFor >= 0.
NullIffEmptySource ==
    /\ \A i \in 1..Len(poolDrawn) : (poolDrawn[i] = << >>) <=> (poolCfg.sourceSize = 0)
    /\ (poolCfg.sourceSize >= 1 /\ poolMap["track"] # << >>)
           => Len(poolMap["track"][1].draw) >= 1

\* a source of one asked not to repeat for 8 draws: three draws, each of
\* them index 0
NullIffEmptyWitness ==
    /\ poolCfg = [sourceSize |-> 1, dontRepeatFor |-> DefaultDontRepeatFor]
    /\ poolDrawn = << <<0>>, <<0>>, <<0>> >>

\* C13: when the first nextSegment() step of a getSyncedSegment() call is
\* about to run, the station's per-run state is initial: cursor 0,
\* accumulated time 0, no previous segment, number-source index 0, and in
\* every draw pool all indices drawable and the recently-drawn FIFO empty.
SyncStartsFresh ==
    (running # << >> /\ steps[running[1].who] = 0) =>
        LET st == station[running[1].who][1]
        IN  /\ st.segmentIndex = 0
            /\ st.accumulatedTime = 0
            /\ st.prevSegment = << >>
            /\ PRNG.index = 0
            /\ \A id \in PoolIds :
                   \/ st.indexDrawPools[id] = << >>
                   \/ /\ st.indexDrawPools[id][1].discard = << >>
                      /\ \A i \in 1..Len(st.indexDrawPools[id][1].draw) :
                             st.indexDrawPools[id][1].draw[i] = i - 1

\* C14: whenever a station performs a replay step, the seed of the number
\* source is the timestamp of the current synchronization epoch (the first
\* instant of the month the clock is in), also for a station object that
\* has lived across a month boundary.
SeedIsEpoch ==
    lastStep # << >> => lastStep[1].seed = lastStep[1].epoch

\* C15, as stated: in the dynamic station, a step whose previous segment is
\* a track selects a transition exactly when randPercent < 50, and a track
\* otherwise; a step with no previous segment or after a transition selects
\* a track.
DynamicChoiceAsStated ==
    (lastStep # << >> /\ meta.type = "dynamic") =>
        IF lastStep[1].prev # << >> /\ lastStep[1].prev[1].isTrack
        THEN ~lastStep[1].seg.isTrack <=> toFloatBelowHalf(lastStep[1].raw)
        ELSE lastStep[1].seg.isTrack

\* C15, amended: in the dynamic station, a step whose previous segment is a
\* track selects a track exactly when randPercent < 50, and a transition
\* otherwise; a step with no previous segment or after a transition selects
\* a track.
DynamicChoice ==
    (lastStep # << >> /\ meta.type = "dynamic") =>
        IF lastStep[1].prev # << >> /\ lastStep[1].prev[1].isTrack
        THEN lastStep[1].seg.isTrack <=> toFloatBelowHalf(lastStep[1].raw)
        ELSE lastStep[1].seg.isTrack

\* a track has followed a track because the number drawn gave
\* randPercent < 50
DynamicChoiceWitness ==
    /\ lastStep # << >>
    /\ meta.type = "dynamic"
    /\ lastStep[1].prev # << >>
    /\ lastStep[1].prev[1].isTrack
    /\ toFloatBelowHalf(lastStep[1].raw)
    /\ lastStep[1].seg.isTrack

Elements(seq) == {seq[i] : i \in 1..Len(seq)}

\* the stand-alone pool as it is: the manager's entry, or the pool the next
\* draw will create
ThePool ==
    IF poolMap["track"] = << >>
    THEN IndexDrawPool(poolCfg.sourceSize,
                       Min(poolCfg.dontRepeatFor, poolCfg.sourceSize - 1))
    ELSE poolMap["track"][1]

PoolPartitionNow ==
    LET n == poolCfg.sourceSize
        w == Min(poolCfg.dontRepeatFor, n - 1)
        q == ThePool
    IN  /\ Cardinality(Elements(q.draw)) = Len(q.draw)
        /\ Cardinality(Elements(q.discard)) = Len(q.discard)
        /\ Elements(q.draw) \cap Elements(q.discard) = {}
        /\ Elements(q.draw) \cup Elements(q.discard) = 0..(n - 1)
        /\ Len(q.discard) <= (IF n = 0 THEN 0 ELSE w)

PoolReturnsOldest ==
    LET q == ThePool
        drawn == poolDrawn'[Len(poolDrawn')]
        pushed == q.discard \o drawn
    IN  \A x \in Elements(ThePool'.draw) :
            x \in Elements(pushed) => x = Head(pushed)

\* C17: after any sequence of draws on a pool of source size n created
\* through the manager, the drawable set and the FIFO are disjoint and free
\* of duplicates, their union is 0..n-1, the FIFO holds at most
\* min(dontRepeatFor, n-1) entries (none when n = 0), and a draw gives back
\* to the drawable set only the oldest FIFO entry.
PoolPartition == [](PoolPartitionNow) /\ [][PoolReturnsOldest]_vars

\* a pool of four with a window of two after five draws: two indices wait in
\* the FIFO, and the index drawn last had been drawn and given back before
PoolPartitionWitness ==
    /\ poolCfg = [sourceSize |-> 4, dontRepeatFor |-> 2]
    /\ Len(poolDrawn) = 5
    /\ Len(ThePool.discard) = 2
    /\ Len(ThePool.draw) = 2
    /\ \E i \in 1..3 : poolDrawn[i] = poolDrawn[5]

\* C18: nextSegment() and getSyncedSegment() leave the station's metadata
\* as it was loaded: the segment descriptors of meta.fileGroups keep their
\* fields and values, and the voice-over chosen is attached to the returned
\* segment only.
MetaUnchanged ==
    /\ meta.fileGroups \in FileGroupChoices
    /\ \A i \in 1..Len(meta.fileGroups.track) : meta.fileGroups.track[i].voiceOver = << >>

\* C19: from its getSyncedSegment() on, every segment a station object
\* produces (path, startTimestamp, isTrack) is the one it would produce had
\* no operation on another station object of the process come in between.
InterleavingIndependent ==
    (lastStep # << >> /\ lastStep[1].alone # << >>) =>
        /\ SamePlace(lastStep[1].seg, lastStep[1].alone[1])
        /\ SameFlag(lastStep[1].seg, lastStep[1].alone[1])

\* C20: two consecutive nextSegment() steps of a station with no reset in
\* between produce contiguous segments: the later startTimestamp is the
\* earlier one plus 1000 times the earlier segment's effective duration,
\* also when the clock has advanced between the two steps.
SegmentsContiguous ==
    \A s \in DOMAIN emitted :
        (steps[s] >= 2 /\ Len(emitted[s]) = 2) =>
            emitted[s][2].startTimestamp =
                emitted[s][1].startTimestamp + (SecMs * PlayedDuration(emitted[s][1]))
====
